---- MODULE Spec2Model ----
(***************************************************************************)
(* The explicit free-list heap allocator of explicit_allocator.c, and the   *)
(* implicit one of implicit_allocator.c after it.                          *)
(*                                                                         *)
(* Memory is an array of 8-byte words addressed by byte address.  The      *)
(* mapped memory starts at segment_start; the heap segment handed to       *)
(* myinit is its first HeapWords words, and the words mapped after the     *)
(* segment (none, or HostWords of them) belong to the host and hold        *)
(* values the allocator never wrote.  An access outside the mapped memory  *)
(* is a fault: the process dies.  size_t and pointers are WordBits wide;   *)
(* all size_t arithmetic is modulo 2^WordBits.                             *)
(*                                                                         *)
(* Every call is one action: it runs the C function on the machine state   *)
(* and records what it read, wrote and returned.  The client calls malloc, *)
(* free and realloc with NULL or a pointer it holds, and stores into the   *)
(* payloads it holds.                                                      *)
(***************************************************************************)
EXTENDS Integers, FiniteSets, Sequences, TLC

\* ------------------------------------------------------------- constants
WIDTH == 8
ALLOC == 1
FREE == 0
NULL == 0
\* sizeof(header): block_size, prev_ptr, next_ptr.
sizeof_header == 24

\* ---------------------------------------------------------------- bounds
\* Width of size_t and of a pointer, in bits.
WordBits == 15
\* heap_size, in words.
HeapWords == 9
\* Number of words mapped after the segment, when any are.
HostWords == 3
\* Largest word offset into a payload the client stores to.
MaxStoreWord == 0
\* Number of calls explored on a heap whose invariants are already broken.
MaxWild == 1
\* Number of calls the client of the 4096-byte region and the client of
\* the implicit allocator make.
MaxCalls == 4

SizeT == 2 ^ WordBits
\* heap_start: above every length memcpy is called with, so that no
\* offset from NULL is mapped.
Base == 64
HeapSize == HeapWords * WIDTH
\* The word-aligned addresses of n words from segment_start on.
Words(n) == {Base + WIDTH * i : i \in 0 .. (n - 1)}
\* The values the host memory after the segment may be filled with: as a
\* header 0 is a free block of size 0, 1 an allocated one, 96 a free block
\* of size 24; as a pointer 0 is NULL and 96 an address inside the segment.
HostVals == {0, 1, 96}
\* The request sizes of the client, with one that is within 7 of the
\* largest size_t.
ReqSizes == {0, 8, 24, 48, SizeT - 1}
\* The size of the region of 4096 bytes, and the sizes its client asks
\* malloc and realloc for.
RegionSize == 512 * WIDTH
MallocSizes == {16, 100}
ReallocSizes == {32, 40}
\* The values the client stores into its payloads.
DataVals == {3}

VARIABLES
  mem,              \* the mapped memory: address -> 0 .. SizeT-1
  segment_size,     \* static size_t segment_size
  last_free_block,  \* static void *last_free_block
  nblocks,          \* static size_t nblocks
  nused,            \* static size_t nused
  live,             \* payload pointers the client holds -> the bytes it stores to
  op,               \* the last call: [name, ptr, size]
  ret,              \* what the last call returned
  rd,               \* the addresses the last call read
  wr,               \* the addresses the last call wrote
  crashed,          \* the last call faulted
  wild,             \* the calls made on a heap whose invariants were broken
  calls,            \* the calls made by a client that makes MaxCalls of them
  bytes_used        \* static size_t bytes_used (implicit_allocator.c)

vars == <<mem, segment_size, last_free_block, nblocks, nused, live, op, ret,
          rd, wr, crashed, wild, calls, bytes_used>>

segment_start == Base
start_block == Base + WIDTH
SegEnd == segment_start + segment_size

\* ------------------------------------------------------ size_t arithmetic
Add(a, b) == (a + b) % SizeT
Sub(a, b) == (a - b + SizeT) % SizeT
Shl2(x) == (x * 4) % SizeT
Shr2(x) == x \div 4

\* --------------------------------------------------------- memory access
\* A machine state m is [mem, last_free_block, nblocks, nused, rd, wr]: the
\* memory, the statics, and the addresses read and written so far.
\* An access outside the mapped memory: a fault.  Nothing is read or
\* written after it.
Fault(m) == \E a \in m.rd \cup m.wr : a \notin DOMAIN m.mem
\* The word at a.
Ld(m, a) == IF a \in DOMAIN m.mem THEN m.mem[a] ELSE 0
\* The words at the addresses as are read.
Rd(m, as) == IF Fault(m) THEN m ELSE [m EXCEPT !.rd = @ \cup as]
\* v is written to the word at a.
St(m, a, v) ==
  IF Fault(m) THEN m
  ELSE [m EXCEPT !.mem = IF a \in DOMAIN m.mem THEN [@ EXCEPT ![a] = v]
                                               ELSE @,
                 !.wr = @ \cup {a}]

\* ------------------------------------------------------- header and links
create_hdr(m, loc, size, prev, next) ==
  St(St(St(m, loc, Shl2(size)), Add(loc, 8), prev), Add(loc, 16), next)

get_hdr(block_ptr) == Sub(block_ptr, WIDTH)

get_block_size(m, block_ptr) == Shr2(Ld(m, get_hdr(block_ptr)))

get_next_block(m, block_ptr) ==
  Add(Add(block_ptr, get_block_size(m, block_ptr)), WIDTH)

get_next_free(m, block_ptr) ==
  IF block_ptr # NULL THEN Ld(m, Add(get_hdr(block_ptr), 16)) ELSE NULL

get_prev_free(m, block_ptr) ==
  IF block_ptr # NULL THEN Ld(m, Add(get_hdr(block_ptr), 8)) ELSE NULL

check_alloc(m, block_ptr) == Ld(m, get_hdr(block_ptr)) % 2

\* The addresses the three getters read.
AdrSize(block_ptr) == {get_hdr(block_ptr)}
AdrPrev(block_ptr) ==
  IF block_ptr # NULL THEN {Add(get_hdr(block_ptr), 8)} ELSE {}
AdrNext(block_ptr) ==
  IF block_ptr # NULL THEN {Add(get_hdr(block_ptr), 16)} ELSE {}

round_up(req_size) ==
  LET s == Add(req_size, WIDTH - 1)
      rounded_size == s - (s % WIDTH)
  IN IF rounded_size < 16 THEN 16 ELSE rounded_size

set_hdr_size(m, block_ptr, upd_size) ==
  LET h == get_hdr(block_ptr)
  IN St(Rd(m, {h}), h, (Ld(m, h) % 4) + Shl2(upd_size))

set_hdr_status(m, block_ptr, status) ==
  LET h == get_hdr(block_ptr)
  IN St(Rd(m, {h}), h, (Ld(m, h) - (Ld(m, h) % 4)) + status)

set_prev_ptr(m, block_ptr, prev) ==
  IF block_ptr # NULL THEN St(m, Add(get_hdr(block_ptr), 8), prev) ELSE m

set_next_ptr(m, block_ptr, next) ==
  IF block_ptr # NULL THEN St(m, Add(get_hdr(block_ptr), 16), next) ELSE m

upd_last_free_block(m, cmp_block, new_block) ==
  IF m.last_free_block = cmp_block
  THEN [m EXCEPT !.last_free_block = new_block]
  ELSE m

\* ------------------------------------------------------------- first_fit
\* The loop of first_fit from its i-th iteration on; a fault ends it.
RECURSIVE first_fit_loop(_, _, _, _)
first_fit_loop(m, curr_block, i, req_size) ==
  IF i < Sub(m.nblocks, m.nused)
  THEN LET m0 == Rd(m, AdrSize(curr_block))
       IN IF get_hdr(curr_block) \notin DOMAIN m.mem
          THEN [m |-> m0, v |-> NULL]
          ELSE IF get_block_size(m0, curr_block) >= req_size
                  /\ check_alloc(m0, curr_block) = 0
               THEN [m |-> m0, v |-> curr_block]
               ELSE first_fit_loop(Rd(m0, AdrPrev(curr_block)),
                                   get_prev_free(m0, curr_block), i + 1,
                                   req_size)
  ELSE [m |-> m, v |-> curr_block]

first_fit(m, req_size) == first_fit_loop(m, m.last_free_block, 0, req_size)

\* ----------------------------------------------------- free-list splicing
create_partial_fb(m, orig_block, new_fb, fb_size) ==
  LET new_free_hdr == get_hdr(new_fb)
      orig_prev == get_prev_free(m, orig_block)
      orig_next == get_next_free(m, orig_block)
      m0 == Rd(m, AdrPrev(orig_block) \cup AdrNext(orig_block))
      m1 == set_next_ptr(m0, orig_prev, new_fb)
      m2 == set_prev_ptr(m1, orig_next, new_fb)
      m3 == create_hdr(m2, new_free_hdr, fb_size, orig_prev, orig_next)
  IN upd_last_free_block(m3, orig_block, new_fb)

change_to_free(m, new_free) ==
  LET m1 == set_hdr_status(m, new_free, FREE)
      m2 == set_next_ptr(m1, m1.last_free_block, new_free)
      m3 == set_prev_ptr(m2, new_free, m2.last_free_block)
      m4 == set_next_ptr(m3, new_free, NULL)
  IN [m4 EXCEPT !.last_free_block = new_free]

coalesce(m, new_free) ==
  LET neighbor == get_next_block(m, new_free)
      neighbor_prev == get_prev_free(m, neighbor)
      neighbor_next == get_next_free(m, neighbor)
      m0 == Rd(m, AdrSize(new_free) \cup AdrPrev(neighbor)
                    \cup AdrNext(neighbor))
      m1 == set_hdr_status(m0, new_free, FREE)
      m2 == set_hdr_size(Rd(m1, AdrSize(new_free) \cup AdrSize(neighbor)),
                         new_free,
                         Add(Add(get_block_size(m1, new_free),
                                 get_block_size(m1, neighbor)), WIDTH))
      m3 == set_prev_ptr(m2, new_free, neighbor_prev)
      m4 == set_next_ptr(m3, new_free, neighbor_next)
      m5 == set_prev_ptr(m4, neighbor_next, new_free)
      m6 == set_next_ptr(m5, neighbor_prev, new_free)
  IN upd_last_free_block(m6, neighbor, new_free)

\* ---------------------------------------------------------- right_search
\* The loop of right_search; a fault ends it.
RECURSIVE right_search_loop(_, _, _, _, _)
right_search_loop(m, r_neighbor, add_size, total_space, block_count) ==
  IF total_space < add_size
  THEN LET m0 == Rd(m, AdrSize(r_neighbor))
       IN IF get_hdr(r_neighbor) \notin DOMAIN m.mem
          THEN [m |-> m0, v |-> 0]
          ELSE IF check_alloc(m0, r_neighbor) = 1
               THEN [m |-> m0, v |-> 0]
               ELSE right_search_loop(
                      m0, get_next_block(m0, r_neighbor), add_size,
                      Add(total_space,
                          Add(get_block_size(m0, r_neighbor), WIDTH)),
                      block_count + 1)
  ELSE [m |-> m, v |-> block_count]

right_search(m, r_neighbor, add_size) ==
  right_search_loop(m, r_neighbor, add_size, 0, 0)

\* --------------------------------------------------------- fix_neighbors
\* The loop of fix_neighbors from its i-th iteration on; new_size is the
\* value of *new_size.
RECURSIVE fix_neighbors_loop(_, _, _, _, _, _)
fix_neighbors_loop(m, neighbor, new_size, i, num_blocks, space_needed) ==
  IF i <= num_blocks
  THEN LET last == (i = num_blocks)
           remaining_space ==
             Sub(Add(get_block_size(m, neighbor), WIDTH), space_needed)
       IN IF last /\ remaining_space >= sizeof_header
          THEN LET new_partial_fb == Add(neighbor, space_needed)
                   new_fb_size ==
                     Sub(get_block_size(m, neighbor), space_needed)
               IN [m |-> create_partial_fb(Rd(m, AdrSize(neighbor)),
                                           neighbor, new_partial_fb,
                                           new_fb_size),
                   new_size |-> new_size]
          ELSE LET ns == IF last THEN Add(new_size, remaining_space)
                                 ELSE new_size
                   m0 == Rd(m, (IF last THEN AdrSize(neighbor) ELSE {})
                                 \cup AdrPrev(neighbor)
                                 \cup AdrNext(neighbor))
                   neighbor_prev == get_prev_free(m0, neighbor)
                   m1 == set_next_ptr(m0, neighbor_prev,
                                      get_next_free(m0, neighbor))
                   m2 == set_prev_ptr(m1, get_next_free(m1, neighbor),
                                      get_prev_free(m1, neighbor))
                   m3 == upd_last_free_block(m2, neighbor, neighbor_prev)
                   m4 == Rd(m3, AdrSize(neighbor))
                   sn == Sub(space_needed,
                             Add(get_block_size(m4, neighbor), WIDTH))
               IN fix_neighbors_loop(
                    [m4 EXCEPT !.nblocks = Sub(@, 1)],
                    get_next_block(m4, neighbor), ns, i + 1, num_blocks, sn)
  ELSE [m |-> m, new_size |-> new_size]

\* fix_neighbors counting one block less for the last neighbour too when it
\* leaves the rest of it as a free block.
fix_neighbors_counting(m, neighbor, new_size, num_blocks, space_needed) ==
  [m |-> [fix_neighbors_loop(m, neighbor, new_size, 1, num_blocks,
                             space_needed).m
            EXCEPT !.nblocks = Sub(m.nblocks, num_blocks)],
   new_size |-> fix_neighbors_loop(m, neighbor, new_size, 1, num_blocks,
                                   space_needed).new_size]

fix_neighbors(m, neighbor, new_size, num_blocks, space_needed) ==
  fix_neighbors_loop(m, neighbor, new_size, 1, num_blocks, space_needed)

\* ------------------------------------------------------------------ API
\* myinit on a machine state: the statics and the first header.
\* myinit leaving nused as it finds it.
myinit_counting(m, heap_start, heap_size) ==
  [create_hdr(m, heap_start, Sub(heap_size, WIDTH), NULL, NULL)
     EXCEPT !.last_free_block = Add(heap_start, WIDTH),
            !.nblocks = 1]

myinit(m, heap_start, heap_size) ==
  LET m1 == create_hdr(m, heap_start, Sub(heap_size, WIDTH), NULL, NULL)
  IN [m1 EXCEPT !.last_free_block = Add(heap_start, WIDTH),
                !.nblocks = 1,
                !.nused = 0]

mymalloc(m, size) ==
  IF size <= 0
  THEN [m |-> m, v |-> NULL]
  ELSE
    LET req_size == round_up(size)
        ff == first_fit(m, req_size)
        alloc_block == ff.v
    IN IF alloc_block # NULL
       THEN
         LET m0 == Rd(ff.m, AdrSize(alloc_block))
             size_diff == Sub(get_block_size(m0, alloc_block), req_size)
             split == ~(size_diff < sizeof_header)
             final_size == IF split THEN req_size
                                    ELSE Add(size_diff, req_size)
             m1 ==
               IF ~split
               THEN IF alloc_block = m0.last_free_block
                    THEN LET lf == get_prev_free(m0, m0.last_free_block)
                             a == Rd(m0, AdrPrev(m0.last_free_block))
                         IN set_next_ptr([a EXCEPT !.last_free_block = lf],
                                         lf, NULL)
                    ELSE LET a == Rd(m0, AdrNext(alloc_block)
                                           \cup AdrPrev(alloc_block))
                             b == set_prev_ptr(a,
                                    get_next_free(a, alloc_block),
                                    get_prev_free(a, alloc_block))
                         IN set_next_ptr(b, get_prev_free(b, alloc_block),
                                         get_next_free(b, alloc_block))
               ELSE LET new_partial_fb ==
                          Add(Add(alloc_block, req_size), WIDTH)
                        a == create_partial_fb(m0, alloc_block,
                               new_partial_fb, Sub(size_diff, WIDTH))
                    IN [a EXCEPT !.nblocks = Add(@, 1)]
             m2 == set_hdr_size(m1, alloc_block, final_size)
             m3 == set_hdr_status(m2, alloc_block, ALLOC)
         IN [m |-> [m3 EXCEPT !.nused = Add(@, 1)], v |-> alloc_block]
       ELSE [m |-> ff.m, v |-> NULL]

myfree(m, ptr) ==
  IF ptr # NULL
  THEN LET nb == get_next_block(m, ptr)
           m0 == Rd(m, AdrSize(ptr) \cup AdrSize(nb))
           m1 == IF check_alloc(m0, nb) = 0
                 THEN [coalesce(m0, ptr) EXCEPT !.nblocks = Sub(@, 1)]
                 ELSE change_to_free(m0, ptr)
       IN [m1 EXCEPT !.nused = Sub(@, 1)]
  ELSE m

\* memcpy(dst, src, n) word by word; the order of the words is "up" or
\* "down" (it shows only when the two ranges overlap); a fault ends it.
RECURSIVE memcpy_loop(_, _, _, _, _, _)
memcpy_loop(m, dst, src, i, k, dir) ==
  IF i >= k
  THEN m
  ELSE LET j == IF dir = "up" THEN i ELSE k - 1 - i
           from == Add(src, WIDTH * j)
           to == Add(dst, WIDTH * j)
           m1 == St(Rd(m, {from}), to, Ld(m, from))
       IN IF from \notin DOMAIN m.mem \/ to \notin DOMAIN m.mem
          THEN m1
          ELSE memcpy_loop(m1, dst, src, i + 1, k, dir)

memcpy(m, dst, src, n, dir) == memcpy_loop(m, dst, src, 0, n \div WIDTH, dir)

\* The orders memcpy may copy in: any when the two ranges overlap (the
\* behaviour is then undefined), and otherwise the order makes no difference.
CopyOrders(dst, src, n) ==
  IF dst < src + n /\ src < dst + n THEN {"up", "down"} ELSE {"up"}

\* What myrealloc leaves: the machine state, the pointer returned, and the
\* orders its memcpy may have copied in.
Result(m, v, orders) == [m |-> m, v |-> v, orders |-> orders]

\* old_ptr = NULL: the result a of mymalloc is returned.
realloc_null(a) == Result(a.m, a.v, {"up"})

\* SHRINK: the block keeps its first new_size bytes; what is left over
\* becomes a free block when it can hold a header and two links.
\* realloc_shrink giving the new free block the header's bytes as payload
\* too.
realloc_shrink_wide(m, old_ptr, new_size, size_diff) ==
  IF size_diff >= sizeof_header
  THEN LET new_free_start == Add(Add(old_ptr, new_size), WIDTH)
       IN Result([set_hdr_size(
                    change_to_free(set_hdr_size(m, old_ptr, new_size),
                                   new_free_start),
                    new_free_start, size_diff)
                    EXCEPT !.nblocks = Add(@, 1)],
                 old_ptr, {"up"})
  ELSE Result(m, old_ptr, {"up"})

realloc_shrink(m, old_ptr, new_size, size_diff) ==
  IF size_diff >= sizeof_header
  THEN LET new_free_start == Add(Add(old_ptr, new_size), WIDTH)
       IN Result([set_hdr_size(
                    change_to_free(set_hdr_size(m, old_ptr, new_size),
                                   new_free_start),
                    new_free_start, Sub(size_diff, WIDTH))
                    EXCEPT !.nblocks = Add(@, 1)],
                 old_ptr, {"up"})
  ELSE Result(m, old_ptr, {"up"})

\* EXPAND in place: fix_neighbors has left fx, the block takes fx.new_size.
realloc_absorb(fx, old_ptr) ==
  Result(set_hdr_size(fx.m, old_ptr, fx.new_size), old_ptr, {"up"})

\* EXPAND by moving: mymalloc has left a; a.v is not tested before memcpy.
realloc_move(a, old_ptr, new_size, dir) ==
  Result(myfree(memcpy(a.m, a.v, old_ptr, new_size, dir), old_ptr), a.v,
         CopyOrders(a.v, old_ptr, new_size))

\* EXPAND: right_search has left rs.
realloc_expand(rs, old_ptr, new_size, size_diff, dir) ==
  IF rs.v # 0
  THEN realloc_absorb(fix_neighbors(Rd(rs.m, AdrSize(old_ptr)),
                                    get_next_block(rs.m, old_ptr),
                                    new_size, rs.v, size_diff),
                      old_ptr)
  ELSE realloc_move(mymalloc(rs.m, new_size), old_ptr, new_size, dir)

\* The body of myrealloc after its two early returns, curr_size read.
realloc_sized(m, old_ptr, curr_size, new_size, dir) ==
  IF curr_size >= new_size
  THEN realloc_shrink(m, old_ptr, new_size, Sub(curr_size, new_size))
  ELSE realloc_expand(right_search(m, Add(Add(old_ptr, curr_size), WIDTH),
                                   Sub(new_size, curr_size)),
                      old_ptr, new_size, Sub(new_size, curr_size), dir)

\* myrealloc with its memcpy copying in order dir.
\* myrealloc without its test of new_size == 0.
myrealloc_sized(m, old_ptr, size, dir) ==
  IF old_ptr = NULL
  THEN realloc_null(mymalloc(m, size))
  ELSE realloc_sized(Rd(m, AdrSize(old_ptr)), old_ptr,
                     get_block_size(m, old_ptr), round_up(size), dir)

myrealloc(m, old_ptr, size, dir) ==
  IF old_ptr = NULL
  THEN realloc_null(mymalloc(m, size))
  ELSE IF size = 0
  THEN Result(myfree(m, old_ptr), NULL, {"up"})
  ELSE realloc_sized(Rd(m, AdrSize(old_ptr)), old_ptr,
                     get_block_size(m, old_ptr), round_up(size), dir)

\* ------------------------------------------------------ views of a heap
\* The blocks met walking the headers from block_ptr, k blocks at most,
\* as validate_heap walks them; the walk ends where a header is unmapped.
RECURSIVE Walk(_, _, _)
Walk(m, block_ptr, k) ==
  IF k = 0 \/ get_hdr(block_ptr) \notin DOMAIN m.mem
  THEN << >>
  ELSE <<block_ptr>> \o Walk(m, get_next_block(m, block_ptr), k - 1)

\* The blocks of the segment in address order: the walk from start_block
\* as long as the header lies in the segment.
RECURSIVE RegionWalk(_, _)
RegionWalk(m, block_ptr) ==
  IF get_hdr(block_ptr) \notin DOMAIN m.mem
     \/ get_hdr(block_ptr) < segment_start
     \/ get_hdr(block_ptr) >= SegEnd
  THEN << >>
  ELSE <<block_ptr>> \o RegionWalk(m, get_next_block(m, block_ptr))

\* The walk from block_ptr along prev_free, k blocks at most.
RECURSIVE FreeWalk(_, _, _)
FreeWalk(m, block_ptr, k) ==
  IF k = 0 \/ block_ptr = NULL \/ get_hdr(block_ptr) \notin DOMAIN m.mem
  THEN << >>
  ELSE <<block_ptr>> \o FreeWalk(m, get_prev_free(m, block_ptr), k - 1)

Range(sq) == {sq[i] : i \in DOMAIN sq}

RECURSIVE SumWidth(_, _)
SumWidth(m, sq) ==
  IF sq = << >> THEN 0
  ELSE get_block_size(m, Head(sq)) + WIDTH + SumWidth(m, Tail(sq))

MappedWords(m) == Cardinality(DOMAIN m.mem)

\* I1: the nblocks blocks walked from start_block tile the segment.
Tiles(m) ==
  LET w == Walk(m, start_block, m.nblocks)
  IN Len(w) = m.nblocks /\ SumWidth(m, w) = segment_size

\* I3: nblocks and nused count the blocks of the segment and the allocated
\* ones among them.
Counts(m) ==
  LET w == RegionWalk(m, start_block)
  IN /\ m.nblocks = Len(w)
     /\ m.nused = Cardinality({i \in DOMAIN w : check_alloc(m, w[i]) = 1})

\* I4: the walk from last_free_block along prev_free ends at NULL and meets
\* exactly the free blocks of the segment, each once.
FreeListExact(m) ==
  LET w == RegionWalk(m, start_block)
      f == FreeWalk(m, m.last_free_block, MappedWords(m) + 1)
  IN /\ Len(f) <= MappedWords(m)
     /\ (f # << >> => get_prev_free(m, f[Len(f)]) = NULL)
     /\ \A i, j \in DOMAIN f : f[i] = f[j] => i = j
     /\ Range(f) = {b \in Range(w) : check_alloc(m, b) = 0}
     /\ (m.last_free_block = NULL <=> m.nblocks = m.nused)

\* I4, I5: next_free inverts prev_free on the free blocks, and the next_free
\* of last_free_block is NULL.
Linked(m) ==
  LET w == RegionWalk(m, start_block)
  IN /\ \A x \in {b \in Range(w) : check_alloc(m, b) = 0} :
          get_prev_free(m, x) # NULL
            => get_next_free(m, get_prev_free(m, x)) = x
     /\ (m.last_free_block # NULL
           => get_next_free(m, m.last_free_block) = NULL)

Sound(m) == Tiles(m) /\ Counts(m) /\ FreeListExact(m) /\ Linked(m)

\* ---------------------------------------------------------- validate_heap
\* The first loop of validate_heap from its i-th iteration on: the bytes of
\* the blocks walked and the number of free ones; a fault ends it.
RECURSIVE validate_blocks(_, _, _, _, _)
validate_blocks(m, curr_block, i, bytes, free_count) ==
  IF i < m.nblocks /\ ~Fault(m)
  THEN validate_blocks(
         Rd(m, AdrSize(curr_block)),
         get_next_block(m, curr_block),
         i + 1,
         Add(bytes, Add(get_block_size(m, curr_block), WIDTH)),
         IF check_alloc(m, curr_block) = 1 THEN free_count
                                           ELSE free_count + 1)
  ELSE [m |-> m, bytes |-> bytes, free_count |-> free_count]

\* The loop of validate_heap over the free list, with n_free still to
\* count down and fuel iterations left.  The loop writes nothing, so one
\* that outlasts the number of mapped words has met a block twice and never
\* ends: hang.
RECURSIVE validate_free(_, _, _, _)
validate_free(m, curr_free_block, n_free, fuel) ==
  IF curr_free_block = NULL
  THEN [m |-> m, v |-> (n_free = 0), hang |-> FALSE]
  ELSE IF fuel = 0
  THEN [m |-> m, v |-> FALSE, hang |-> TRUE]
  ELSE IF get_hdr(curr_free_block) \notin DOMAIN m.mem
  THEN [m |-> Rd(m, AdrSize(curr_free_block)), v |-> FALSE, hang |-> FALSE]
  ELSE IF check_alloc(m, curr_free_block) = 1
  THEN [m |-> Rd(m, AdrSize(curr_free_block)), v |-> FALSE, hang |-> FALSE]
  ELSE IF get_prev_free(m, curr_free_block) # NULL
          /\ get_next_free(m, get_prev_free(m, curr_free_block))
               # curr_free_block
  THEN [m |-> Rd(m, AdrSize(curr_free_block) \cup AdrPrev(curr_free_block)
                      \cup AdrNext(get_prev_free(m, curr_free_block))),
        v |-> FALSE, hang |-> FALSE]
  ELSE validate_free(
         Rd(m, AdrSize(curr_free_block) \cup AdrPrev(curr_free_block)
                 \cup AdrNext(get_prev_free(m, curr_free_block))),
         get_prev_free(m, curr_free_block), Sub(n_free, 1), fuel - 1)

\* validate_heap after its first loop left b.
validate_counts(b, n_free) ==
  IF Fault(b.m) \/ b.bytes # segment_size \/ b.free_count # n_free
  THEN [m |-> b.m, v |-> FALSE, hang |-> FALSE]
  ELSE validate_free(b.m, b.m.last_free_block, n_free, MappedWords(b.m) + 1)

\* validate_heap(): what it read (m.rd), what it returns (v) unless it
\* faults (Fault(m)) or never returns (hang).
validate_heap(m) ==
  validate_counts(validate_blocks(m, start_block, 0, 0, 0),
                  Sub(m.nblocks, m.nused))

\* ---------------------------------------------------------- the machine
\* The machine state a call starts in.
Cur ==
  [mem |-> mem, last_free_block |-> last_free_block, nblocks |-> nblocks,
   nused |-> nused, rd |-> {}, wr |-> {}]

\* The call `name(ptr, size)` ran from Cur to m and returned r, after which
\* the client holds newlive; a call that faulted never returns.
Return(m, name, ptr, size, r, newlive) ==
  /\ op' = [name |-> name, ptr |-> ptr, size |-> size]
  /\ rd' = m.rd
  /\ wr' = m.wr
  /\ UNCHANGED <<segment_size, bytes_used>>
  /\ wild' = IF Sound(Cur) THEN wild ELSE wild + 1
  /\ IF Fault(m)
     THEN /\ crashed' = TRUE
          /\ UNCHANGED <<mem, last_free_block, nblocks, nused, live, ret>>
     ELSE /\ crashed' = FALSE
          /\ mem' = m.mem
          /\ last_free_block' = m.last_free_block
          /\ nblocks' = m.nblocks
          /\ nused' = m.nused
          /\ ret' = r
          /\ live' = newlive

\* f without p.
Drop(f, p) == [q \in DOMAIN f \ {p} |-> f[q]]
\* f with p mapped to n.
Put(f, p, n) == [q \in DOMAIN f \cup {p} |-> IF q = p THEN n ELSE f[q]]

\* The bytes of a request of n bytes the client stores to.
Stored(n) == IF n < WIDTH * (MaxStoreWord + 1) THEN n
                                              ELSE WIDTH * (MaxStoreWord + 1)

\* The state myinit(segment_start, HeapSize) leaves, the segment zeroed
\* before, in a mapping with no host word or with HostWords of them.
Init ==
  /\ segment_size = HeapSize
  /\ \E fill \in HostVals, host \in {0, HostWords} :
       mem = myinit([mem |-> [a \in Words(HeapWords + host) |->
                                IF a < SegEnd THEN 0 ELSE fill],
                     last_free_block |-> NULL, nblocks |-> 0, nused |-> 0,
                     rd |-> {}, wr |-> {}],
                    segment_start, segment_size).mem
  /\ last_free_block = start_block
  /\ nblocks = 1
  /\ nused = 0
  /\ live = << >>
  /\ op = [name |-> "init", ptr |-> segment_start, size |-> segment_size]
  /\ ret = 1
  /\ rd = {}
  /\ wr = {segment_start, segment_start + 8, segment_start + 16}
  /\ crashed = FALSE
  /\ wild = 0
  /\ calls = 0
  /\ bytes_used = 0

\* malloc(n) for some n of sizes.
MallocOf(sizes) ==
  /\ ~crashed
  /\ wild < MaxWild
  /\ \E n \in sizes :
       LET r == mymalloc(Cur, n)
       IN Return(r.m, "malloc", NULL, n, r.v,
                 IF r.v # NULL THEN Put(live, r.v, Stored(n)) ELSE live)

Malloc == MallocOf(ReqSizes) /\ UNCHANGED calls

\* free(p) for a pointer p the client holds, or NULL.
FreeLive ==
  /\ ~crashed
  /\ wild < MaxWild
  /\ \E p \in DOMAIN live \cup {NULL} :
       Return(myfree(Cur, p), "free", p, 0, NULL, Drop(live, p))

\* The client after realloc(p, n) returned v.
ReallocLive(p, n, v) ==
  IF v # NULL THEN Put(Drop(live, p), v, Stored(n))
              ELSE IF n = 0 THEN Drop(live, p) ELSE live

\* realloc(p, n) ran to r, its memcpy copying in order dir.
Realloced(r, p, n, dir) ==
  /\ dir \in r.orders
  /\ Return(r.m, "realloc", p, n, r.v, ReallocLive(p, n, r.v))

\* realloc(p, n) for some n of sizes.
ReallocOf(sizes) ==
  /\ ~crashed
  /\ wild < MaxWild
  /\ \E p \in DOMAIN live \cup {NULL}, n \in sizes, dir \in {"up", "down"} :
       Realloced(myrealloc(Cur, p, n, dir), p, n, dir)

Realloc == ReallocOf(ReqSizes) /\ UNCHANGED calls

\* The client stores v into word k of a payload it holds, inside the bytes
\* it asked for.
StoreLive ==
  /\ ~crashed
  /\ wild < MaxWild
  /\ \E p \in DOMAIN live, k \in 0 .. MaxStoreWord, v \in DataVals :
       /\ WIDTH * (k + 1) <= live[p]
       /\ Add(p, WIDTH * k) \in DOMAIN mem
       /\ mem' = [mem EXCEPT ![Add(p, WIDTH * k)] = v]
       /\ op' = [name |-> "store", ptr |-> NULL, size |-> 0]
       /\ ret' = NULL
       /\ rd' = {}
       /\ wr' = {}
       /\ UNCHANGED <<segment_size, last_free_block, nblocks, nused, live,
                      crashed, wild, bytes_used>>

Free == FreeLive /\ UNCHANGED calls

Store == StoreLive /\ UNCHANGED calls

Next == Malloc \/ Free \/ Realloc \/ Store

Spec == Init /\ [][Next]_vars

\* ------------------------------------------------- a region of 4096 bytes
\* The same client on a region of 4096 bytes with no memory mapped after
\* it, making MaxCalls calls and calling myinit again at any time.
Init4096 ==
  /\ segment_size = RegionSize
  /\ mem = myinit([mem |-> [a \in Words(RegionSize \div WIDTH) |-> 0],
                   last_free_block |-> NULL, nblocks |-> 0, nused |-> 0,
                   rd |-> {}, wr |-> {}],
                  segment_start, segment_size).mem
  /\ last_free_block = start_block
  /\ nblocks = 1
  /\ nused = 0
  /\ live = << >>
  /\ op = [name |-> "init", ptr |-> segment_start, size |-> segment_size]
  /\ ret = 1
  /\ rd = {}
  /\ wr = {segment_start, segment_start + 8, segment_start + 16}
  /\ crashed = FALSE
  /\ wild = 0
  /\ calls = 0
  /\ bytes_used = 0

\* myinit has been called again, on a region that calls had written to.
Reinited ==
  /\ op.name = "init"
  /\ \E a \in DOMAIN mem : a >= segment_start + sizeof_header /\ mem[a] # 0

\* One more call of the client, which makes MaxCalls of them.
Called == calls < MaxCalls /\ calls' = calls + 1

Malloc4096 == Called /\ MallocOf(MallocSizes)

Free4096 == Called /\ FreeLive

Realloc4096 == Called /\ ReallocOf(ReallocSizes)

Store4096 == StoreLive /\ UNCHANGED calls

\* myinit(segment_start, segment_size) called again: it returns true and
\* the client holds nothing any more.
Reinit ==
  /\ ~crashed
  /\ wild < MaxWild
  /\ Return(myinit(Cur, segment_start, segment_size), "init", segment_start,
            segment_size, 1, << >>)
  /\ Called

Next4096 == Malloc4096 \/ Free4096 \/ Realloc4096 \/ Store4096 \/ Reinit

Spec4096 == Init4096 /\ [][Next4096]_vars

\* ------------------------------------------------------------- claims
\* The free blocks of the segment.
FreeBlocks(m) ==
  {b \in Range(RegionWalk(m, start_block)) : check_alloc(m, b) = 0}

\* The mapped addresses of the payload of block q.
PayloadAddrs(m, q) ==
  {a \in DOMAIN m.mem : q <= a /\ a < q + get_block_size(m, q)}

\* The heap as a call may change it.
heap == <<mem, last_free_block, nblocks, nused>>

Call == {"malloc", "free", "realloc"}

\* C1: after init and after every call that returns, the nblocks blocks
\* walked from start_block tile the segment: their widths (payload_size + 8)
\* sum to segment_size.
C1_Tiling == ~crashed => Tiles(Cur)

\* C2: after every call that returns, the walk from last_free_block along
\* prev_free ends at NULL and visits exactly the free blocks, each once, and
\* last_free_block is NULL exactly when nblocks = nused.
C2_FreeListExact == ~crashed => FreeListExact(Cur)

\* C3: after every call that returns, nblocks is the number of blocks in
\* the address-order walk of the segment and nused the number of them whose
\* status bit is 1.
C3_Counts == ~crashed => Counts(Cur)

\* C4: after every call that returns, next_free(prev_free(x)) = x for every
\* free block x with a non-null prev_free, and next_free(last_free_block) is
\* NULL.
C4_Linked == ~crashed => Linked(Cur)

\* C5: free never reads or writes a header at or beyond
\* segment_start + segment_size.
C5_InBounds ==
  op.name = "free" => \A a \in rd \cup wr : a < SegEnd

\* C6: no call writes into the payload of a block the client holds other
\* than the block passed to the call.
C6_Frame ==
  [][op'.name \in Call
       => \A q \in DOMAIN live \ {op'.ptr} :
            wr' \cap PayloadAddrs(Cur, q) = {}]_vars

\* C7: when malloc(n) returns a non-null pointer, the block there is
\* allocated and its payload_size is at least n.
C7_MallocSize ==
  (op.name = "malloc" /\ ~crashed /\ ret # NULL)
    => (check_alloc(Cur, ret) = 1 /\ get_block_size(Cur, ret) >= op.size)

\* C8: malloc(n) returns NULL exactly when n = 0 or no free block has
\* payload_size >= round_up(n), and a malloc that returns NULL leaves the
\* heap as it was.
C8_MallocNull ==
  [][(op'.name = "malloc" /\ ~crashed')
       => /\ (ret' = NULL)
               <=> (op'.size = 0
                      \/ ~\E b \in FreeBlocks(Cur) :
                            get_block_size(Cur, b) >= round_up(op'.size))
          /\ (ret' = NULL => UNCHANGED heap)]_vars

\* realloc(p, n) cannot resize p in place and no free block fits
\* round_up(n).
NoRoom(p, n) ==
  LET c == get_block_size(Cur, p)
      r == round_up(n)
  IN /\ c < r
     /\ right_search(Cur, get_next_block(Cur, p), Sub(r, c)).v = 0
     /\ ~\E b \in FreeBlocks(Cur) : get_block_size(Cur, b) >= r

\* C9: realloc(p, n) with p live and n > 0 that needs a fresh block when no
\* free block fits returns NULL, writes nothing through a null destination
\* and leaves the heap and the client's blocks as they were.
C9_ReallocNoRoom ==
  [][(op'.name = "realloc" /\ op'.ptr # NULL /\ op'.size > 0
        /\ NoRoom(op'.ptr, op'.size))
       => (~crashed' /\ ret' = NULL /\ NULL \notin wr'
             /\ UNCHANGED heap /\ UNCHANGED live)]_vars

\* The smaller of two numbers.
Min(a, b) == IF a < b THEN a ELSE b

\* C10: when realloc(p, n) with p live, n > 0 and old payload size c
\* returns a non-null r, the first min(c, n) bytes at r are the first
\* min(c, n) bytes that were at p.
C10_ReallocKeeps ==
  [][(op'.name = "realloc" /\ op'.ptr # NULL /\ op'.size > 0
        /\ ~crashed' /\ ret' # NULL)
       => \A i \in 0 .. (HeapWords + HostWords) :
            WIDTH * (i + 1) <= Min(get_block_size(Cur, op'.ptr), op'.size)
              => Ld([mem |-> mem'], Add(ret', WIDTH * i))
                   = Ld(Cur, Add(op'.ptr, WIDTH * i))]_vars

\* The machine state after the step.
CurNext ==
  [mem |-> mem', last_free_block |-> last_free_block', nblocks |-> nblocks',
   nused |-> nused', rd |-> {}, wr |-> {}]

\* C11: realloc(p, m) with p live and 0 < m <= c = payload_size(p) returns
\* p and leaves nused as it was; with r = round_up(m), when c - r >= 24 the
\* payload size of p becomes r, the block at p + r + 8 is free with payload
\* c - r - 8, it is last_free_block with prev_free the former
\* last_free_block and a null next_free, and nblocks grows by one; when
\* c - r < 24 the heap is unchanged.
C11_ReallocShrink ==
  [][(op'.name = "realloc" /\ op'.ptr \in DOMAIN live /\ op'.size > 0
        /\ op'.size <= get_block_size(Cur, op'.ptr))
       => LET p == op'.ptr
              c == get_block_size(Cur, p)
              r == round_up(op'.size)
              f == p + r + 8
          IN /\ ~crashed'
             /\ ret' = p
             /\ nused' = nused
             /\ IF c - r >= 24
                THEN /\ get_block_size(CurNext, p) = r
                     /\ check_alloc(CurNext, f) = 0
                     /\ get_block_size(CurNext, f) = c - r - 8
                     /\ last_free_block' = f
                     /\ get_prev_free(CurNext, f) = last_free_block
                     /\ get_next_free(CurNext, f) = NULL
                     /\ nblocks' = nblocks + 1
                ELSE UNCHANGED heap]_vars

\* Some free block of the segment has a free block as its immediate
\* address-order successor.
AdjacentFree(m) ==
  LET w == RegionWalk(m, start_block)
  IN \E i \in DOMAIN w :
       /\ i < Len(w)
       /\ check_alloc(m, w[i]) = 0
       /\ check_alloc(m, w[i + 1]) = 0

\* C13: after free(p) returns, no free block has a free block as its
\* immediate address-order successor.
C13_NoAdjacentFree ==
  (op.name = "free" /\ op.ptr # NULL /\ ~crashed) => ~AdjacentFree(Cur)

\* C14: validate_heap() returns, and returns true, after init and after
\* every call that returns; it returns true exactly in the states where the
\* tiling (I1), the counters (I3) and the free list (I4, I5) are as they
\* must be; and it leaves the heap as it was.
C14_Validate ==
  ~crashed
    => /\ ~Fault(validate_heap(Cur).m)
       /\ ~validate_heap(Cur).hang
       /\ validate_heap(Cur).v
       /\ validate_heap(Cur).v <=> Sound(Cur)
       /\ validate_heap(Cur).m.mem = mem

\* free(p) run on the state a that p = malloc(n) left, the heap having been
\* in state m before the malloc: nused is back at its value in m, and
\* nblocks is back at its value in m, or lower when free merged p with a
\* right neighbour that was a free block of m.
RoundTrip(m, a, b) ==
  /\ ~Fault(b)
  /\ b.nused = m.nused
  /\ \/ b.nblocks = m.nblocks
     \/ /\ b.nblocks < m.nblocks
        /\ get_next_block(a.m, a.v) \in FreeBlocks(m)

\* C15: in every state reached, for every n for which p = malloc(n)
\* succeeds, free(p) called next restores nused and leaves nblocks as it was
\* before the malloc, or lower only when p was merged with a right neighbour
\* that was free before the malloc.
C15_MallocFree ==
  ~crashed
    => \A n \in ReqSizes :
         (mymalloc(Cur, n).v # NULL /\ ~Fault(mymalloc(Cur, n).m))
           => RoundTrip(Cur, mymalloc(Cur, n),
                        myfree(mymalloc(Cur, n).m, mymalloc(Cur, n).v))

\* ---------------------------------------- the region of 4096 bytes: claims
\* The allocator after its first myinit on the zeroed region of 4096 bytes.
Fresh4096 ==
  myinit([mem |-> [a \in Words(RegionSize \div WIDTH) |-> 0],
          last_free_block |-> NULL, nblocks |-> 0, nused |-> 0,
          rd |-> {}, wr |-> {}],
         segment_start, RegionSize)

\* free(a.v) run on a.m.
Freed(a) == myfree(a.m, a.v)

\* The allocator after p = malloc(16); q = malloc(16); free(q) on Fresh4096.
Scenario16 == Freed(mymalloc(mymalloc(Fresh4096, 16).m, 16))

\* The payloads p and q of the scenarios: the first block and the block
\* that follows a first block of 16 bytes.
p4096 == start_block
q4096 == start_block + 16 + WIDTH

\* The state is the one init; p = malloc(16); q = malloc(16); free(q)
\* leaves, whatever the client stored into p.
InScenario16 ==
  /\ calls = 3
  /\ ~crashed
  /\ DOMAIN live = {p4096}
  /\ [mem EXCEPT ![p4096] = 0] = Scenario16.mem
  /\ last_free_block = Scenario16.last_free_block
  /\ nblocks = Scenario16.nblocks
  /\ nused = Scenario16.nused

\* The step is the call realloc(p, 40) of the scenario.
Realloc40 ==
  /\ InScenario16
  /\ op'.name = "realloc"
  /\ op'.ptr = p4096
  /\ op'.size = 40

\* C16: after init; p = malloc(16); q = malloc(16); free(q) on the region
\* of 4096 bytes, r = realloc(p, 40) returns p, whose block has payload 40;
\* no block starts at q any more; the rest of the free block that started
\* at q is a free block of payload 4040 at p + 48, so that nblocks is what
\* it was just before the realloc; and the 16 bytes at p are unchanged.
C16_ReallocAbsorbs ==
  [][Realloc40
       => /\ ~crashed'
          /\ ret' = p4096
          /\ get_block_size(CurNext, p4096) = 40
          /\ RegionWalk(CurNext, start_block) = <<p4096, p4096 + 48>>
          /\ check_alloc(CurNext, p4096 + 48) = FREE
          /\ get_block_size(CurNext, p4096 + 48) = 4040
          /\ nblocks' = nblocks
          /\ nblocks' = 2
          /\ mem'[p4096] = mem[p4096]
          /\ mem'[p4096 + WIDTH] = mem[p4096 + WIDTH]]_vars

\* The scenario of C16 has run, the client having stored into p.
C16_Reached ==
  /\ calls = 4
  /\ op = [name |-> "realloc", ptr |-> p4096, size |-> 40]
  /\ ret = p4096
  /\ mem[p4096] \in DataVals
  /\ nblocks = 2
  /\ nused = 1
  /\ RegionWalk(Cur, start_block) = <<p4096, p4096 + 48>>
  /\ mem[get_hdr(q4096)] = Scenario16.mem[get_hdr(q4096)]

\* C16 as stated: the realloc of the scenario returns p, leaves no block
\* starting at q and the bytes at p as they were, and nblocks one lower
\* than just before it.
C16_AsStated ==
  [][Realloc40
       => /\ ~crashed'
          /\ ret' = p4096
          /\ q4096 \notin Range(RegionWalk(CurNext, start_block))
          /\ nblocks' = nblocks - 1
          /\ mem'[p4096] = mem[p4096]
          /\ mem'[p4096 + WIDTH] = mem[p4096 + WIDTH]]_vars

\* The allocator after p = malloc(100) on Fresh4096.
Scenario100 == mymalloc(Fresh4096, 100).m

\* The state is the one init; p = malloc(100) leaves, whatever the client
\* stored into p.
InScenario100 ==
  /\ calls = 1
  /\ ~crashed
  /\ DOMAIN live = {p4096}
  /\ [mem EXCEPT ![p4096] = 0] = Scenario100.mem
  /\ last_free_block = Scenario100.last_free_block
  /\ nblocks = Scenario100.nblocks
  /\ nused = Scenario100.nused

\* The step is the call realloc(p, 32) of the scenario.
Realloc32 ==
  /\ InScenario100
  /\ op'.name = "realloc"
  /\ op'.ptr = p4096
  /\ op'.size = 32

\* The call returned p, whose block has payload 32 and is followed by a
\* free block of payload size that was no block before the call.
Shrunk(size) ==
  /\ ~crashed'
  /\ ret' = p4096
  /\ get_block_size(CurNext, p4096) = 32
  /\ get_next_block(CurNext, p4096) = p4096 + 32 + WIDTH
  /\ p4096 + 32 + WIDTH \in FreeBlocks(CurNext)
  /\ p4096 + 32 + WIDTH \notin Range(RegionWalk(Cur, start_block))
  /\ p4096 + 32 + WIDTH \in Range(RegionWalk(CurNext, start_block))
  /\ get_block_size(CurNext, p4096 + 32 + WIDTH) = size

\* C17: after init; p = malloc(100) on the region of 4096 bytes,
\* r = realloc(p, 32) returns p, whose payload is then 32, and the block
\* immediately to the right of p is a newly created free block of payload
\* 64 = round_up(100) - 32 - 8.
C17_ReallocShrinks == [][Realloc32 => Shrunk(round_up(100) - 32 - WIDTH)]_vars

\* The scenario of C17 has run, the client having stored into p.
C17_Reached ==
  /\ calls = 2
  /\ op = [name |-> "realloc", ptr |-> p4096, size |-> 32]
  /\ ret = p4096
  /\ mem[p4096] \in DataVals
  /\ RegionWalk(Cur, start_block)
       = <<p4096, p4096 + 32 + WIDTH, p4096 + round_up(100) + WIDTH>>

\* C17 as stated: the new free block has payload 60 = 100 - 32 - 8.
C17_AsStated == [][Realloc32 => Shrunk(100 - 32 - WIDTH)]_vars

\* ------------------------------------------------ the degenerate requests
\* The step did what a call that runs from Cur to m and returns v does: it
\* faulted if that call faults, and it returned v and left the statics and
\* the memory of m if not.
Did(m, v) ==
  IF Fault(m)
  THEN crashed'
  ELSE /\ ~crashed'
       /\ ret' = v
       /\ mem' = m.mem
       /\ last_free_block' = m.last_free_block
       /\ nblocks' = m.nblocks
       /\ nused' = m.nused

\* The step returned NULL and changed nothing of the heap.
DidNothing == ~crashed' /\ ret' = NULL /\ UNCHANGED heap

\* Did for the result a of mymalloc.
DidMalloc(a) == Did(a.m, a.v)

\* C18: realloc(NULL, n) returns the pointer and leaves the heap that
\* malloc(n) called in the same state does, so that realloc(NULL, 0) and
\* malloc(0) return NULL and change nothing; realloc(p, 0) with p live does
\* what free(p) called in the same state does and returns NULL; free(NULL)
\* changes nothing.
C18_Degenerate ==
  [][/\ (op'.name = "realloc" /\ op'.ptr = NULL)
          => DidMalloc(mymalloc(Cur, op'.size))
     /\ (op'.name \in {"malloc", "realloc"} /\ op'.ptr = NULL
          /\ op'.size = 0)
          => DidNothing
     /\ (op'.name = "realloc" /\ op'.ptr \in DOMAIN live /\ op'.size = 0)
          => Did(myfree(Cur, op'.ptr), NULL)
     /\ (op'.name = "free" /\ op'.ptr = NULL)
          => DidNothing]_vars

\* realloc(p, 0) has freed a block p of a heap that held another payload
\* too and has returned NULL.
C18_Reached ==
  /\ op.name = "realloc"
  /\ op.ptr # NULL
  /\ op.size = 0
  /\ ~crashed
  /\ ret = NULL
  /\ op.ptr \in FreeBlocks(Cur)
  /\ op.ptr \notin DOMAIN live
  /\ nused = 1

\* ------------------------------------------------------------ init again
\* C19: myinit(base, size), whatever the calls before it, returns true and
\* leaves what a first myinit leaves: one block, free, at base + 8, of
\* payload size - 8 (4088 for 4096) and with NULL links, which is
\* last_free_block, nblocks = 1 and nused = 0.
C19_InitResets ==
  op.name = "init"
    => /\ ~crashed
       /\ ret = 1
       /\ RegionWalk(Cur, start_block) = <<segment_start + WIDTH>>
       /\ check_alloc(Cur, start_block) = FREE
       /\ get_block_size(Cur, start_block) = segment_size - WIDTH
       /\ get_block_size(Cur, start_block) = 4088
       /\ get_prev_free(Cur, start_block) = NULL
       /\ get_next_free(Cur, start_block) = NULL
       /\ last_free_block = start_block
       /\ nblocks = 1
       /\ nused = 0
       /\ \A a \in {segment_start, start_block, start_block + WIDTH} :
            mem[a] = Fresh4096.mem[a]

\* myinit has been called on a region in which two calls before it had
\* left blocks.
C19_Reached == Reinited /\ calls = 3 /\ live = << >>

\* ------------------------------------------------------- malloc, in full
\* n rounded up to a multiple of 8 and to at least 16.
Rounded(n) ==
  IF n <= 16 THEN 16 ELSE ((n + WIDTH - 1) \div WIDTH) * WIDTH

\* The free list of m, from last_free_block along the prev links.
FreeList(m) == FreeWalk(m, m.last_free_block, MappedWords(m) + 1)

\* sq without its element b.
Without(sq, b) == SelectSeq(sq, LAMBDA x : x # b)

\* sq with f in the place of b.
Replaced(sq, b, f) == [i \in DOMAIN sq |-> IF sq[i] = b THEN f ELSE sq[i]]

\* malloc has taken the whole of the free block b, of payload s.
TookWhole(b, s) ==
  /\ get_block_size(CurNext, b) = s
  /\ FreeList(CurNext) = Without(FreeList(Cur), b)
  /\ nblocks' = nblocks

\* malloc has taken r bytes of the free block b, of payload s, and has
\* left the rest as the free block f in its place in the free list.
TookPart(b, s, r, f) ==
  /\ get_block_size(CurNext, b) = r
  /\ get_next_block(CurNext, b) = f
  /\ check_alloc(CurNext, f) = FREE
  /\ get_block_size(CurNext, f) = s - r - WIDTH
  /\ get_prev_free(CurNext, f) = get_prev_free(Cur, b)
  /\ get_next_free(CurNext, f) = get_next_free(Cur, b)
  /\ FreeList(CurNext) = Replaced(FreeList(Cur), b, f)
  /\ last_free_block' = IF b = last_free_block THEN f ELSE last_free_block
  /\ nblocks' = nblocks + 1

\* malloc has allocated the free block b for a request rounded to r.
Took(b, r) ==
  /\ b \in FreeBlocks(Cur)
  /\ get_block_size(Cur, b) >= r
  /\ check_alloc(CurNext, b) = ALLOC
  /\ nused' = nused + 1
  /\ IF get_block_size(Cur, b) - r < sizeof_header
     THEN TookWhole(b, get_block_size(Cur, b))
     ELSE TookPart(b, get_block_size(Cur, b), r, b + r + WIDTH)

\* C20: a malloc(n) that returns a pointer returns the payload of a free
\* block b of payload s >= r = round_up(n); with delta = s - r < 24 it
\* allocates b whole, takes it off the free list and leaves nblocks; with
\* delta >= 24 it allocates b with payload r, makes the free block of
\* payload delta - 8 at b + r + 8 that takes the place of b in the free
\* list (same links, last_free_block if b was) and adds 1 to nblocks; it
\* adds 1 to nused in both cases.
C20_MallocSplits ==
  [][(op'.name = "malloc" /\ ~crashed' /\ ret' # NULL)
       => Took(ret', Rounded(op'.size))]_vars

\* --------------------------------------------------------- free, in full
\* The blocks of the heap, in address order.
Blocks(m) == Range(RegionWalk(m, start_block))

\* The step left the header of every block of the heap but those of except.
OthersKept(except) ==
  \A b \in Blocks(Cur) \ except : mem'[get_hdr(b)] = mem[get_hdr(b)]

\* free has merged p with its right neighbour q, a free block.
Merged(p, q) ==
  /\ get_block_size(CurNext, p)
       = get_block_size(Cur, p) + WIDTH + get_block_size(Cur, q)
  /\ get_prev_free(CurNext, p) = get_prev_free(Cur, q)
  /\ get_next_free(CurNext, p) = get_next_free(Cur, q)
  /\ FreeList(CurNext) = Replaced(FreeList(Cur), q, p)
  /\ last_free_block' = IF q = last_free_block THEN p ELSE last_free_block
  /\ nblocks' = nblocks - 1
  /\ OthersKept({p, q})

\* free has made p the last free block.
Appended(p) ==
  /\ get_block_size(CurNext, p) = get_block_size(Cur, p)
  /\ get_prev_free(CurNext, p) = last_free_block
  /\ get_next_free(CurNext, p) = NULL
  /\ FreeList(CurNext) = <<p>> \o FreeList(Cur)
  /\ last_free_block' = p
  /\ nblocks' = nblocks
  /\ OthersKept({p})

\* free(p) has done what is stated of it, q being what follows p.
FreedBlock(p, q) ==
  /\ ~crashed'
  /\ check_alloc(CurNext, p) = FREE
  /\ nused' = nused - 1
  /\ IF q \in FreeBlocks(Cur) THEN Merged(p, q) ELSE Appended(p)

\* C21: free(p) on a live block p with q after it: if q is a free block,
\* p becomes a free block of payload payload(p) + 8 + payload(q) in q's
\* place in the free list (q's links, last_free_block if q was) and
\* nblocks goes down by 1; otherwise p is marked free with its size, is
\* last_free_block with prev = the former last_free_block and next = NULL,
\* and nblocks is unchanged; nused goes down by 1 in both cases and no
\* other block's size or status changes.
C21_FreeMerges ==
  [][(op'.name = "free" /\ op'.ptr \in DOMAIN live
      /\ get_next_block(Cur, op'.ptr) \in Blocks(Cur))
       => FreedBlock(op'.ptr, get_next_block(Cur, op'.ptr))]_vars

\* ---------------------------------------------- realloc in place, in full
\* The right neighbours of a block taken in address order from q, all of
\* them free blocks of m, until their payloads and headers sum to need:
\* sq is those taken so far and acc their sum; ok is whether they get
\* there.
RECURSIVE Neighbours(_, _, _, _, _)
Neighbours(m, q, need, acc, sq) ==
  IF acc >= need
  THEN [ok |-> TRUE, sq |-> sq, acc |-> acc]
  ELSE IF q \notin FreeBlocks(m)
  THEN [ok |-> FALSE, sq |-> sq, acc |-> acc]
  ELSE Neighbours(m, get_next_block(m, q), need,
                  acc + get_block_size(m, q) + WIDTH, Append(sq, q))

\* sq without the elements of set.
WithoutAll(sq, set) == SelectSeq(sq, LAMBDA x : x \notin set)

\* realloc has given p the neighbours sq whole: r bytes and leftover more.
AbsorbedWhole(p, r, sq, leftover) ==
  /\ get_block_size(CurNext, p) = r + leftover
  /\ FreeList(CurNext) = WithoutAll(FreeList(Cur), Range(sq))
  /\ nblocks' = nblocks - Len(sq)

\* realloc has given p r bytes and left the rest of the last of the
\* neighbours sq as the free block f in its place in the free list.
AbsorbedPart(p, r, sq, leftover, f) ==
  /\ get_block_size(CurNext, p) = r
  /\ get_next_block(CurNext, p) = f
  /\ check_alloc(CurNext, f) = FREE
  /\ get_block_size(CurNext, f) = leftover - WIDTH
  /\ FreeList(CurNext)
       = Replaced(WithoutAll(FreeList(Cur), Range(SubSeq(sq, 1, Len(sq) - 1))),
                  sq[Len(sq)], f)
  /\ nblocks' = nblocks - (Len(sq) - 1)

\* realloc(p, n) with r = round_up(n) above the payload of p has resized p
\* in place if the neighbours nb suffice, and only then.
Expanded(p, r, need, nb) ==
  IF nb.ok
  THEN /\ ~crashed'
       /\ ret' = p
       /\ check_alloc(CurNext, p) = ALLOC
       /\ nused' = nused
       /\ IF nb.acc - need < sizeof_header
          THEN AbsorbedWhole(p, r, nb.sq, nb.acc - need)
          ELSE AbsorbedPart(p, r, nb.sq, nb.acc - need, p + r + WIDTH)
  ELSE ~crashed' => ret' # p

\* Expanded for the block p of payload c.
ExpandedFrom(p, c, r) ==
  Expanded(p, r, r - c, Neighbours(Cur, get_next_block(Cur, p), r - c, 0, << >>))

\* C22: realloc(p, n) with r = round_up(n) > c = payload(p) resizes in
\* place and returns p exactly when the right neighbours of p are all free
\* until their payloads and headers sum to need = r - c; with k of them
\* taken and leftover what they sum to above need, leftover < 24 gives p
\* the payload r + leftover, takes all k off the free list and k off
\* nblocks; leftover >= 24 gives p the payload r and makes the free block
\* of payload leftover - 8 at p + r + 8 that takes the k-th neighbour's
\* place in the free list, the first k - 1 leave the list and nblocks goes
\* down by k - 1; nused is unchanged.
C22_ReallocExpands ==
  [][(op'.name = "realloc" /\ op'.ptr \in DOMAIN live
      /\ Rounded(op'.size) > get_block_size(Cur, op'.ptr))
       => ExpandedFrom(op'.ptr, get_block_size(Cur, op'.ptr),
                       Rounded(op'.size))]_vars

\* ------------------------------------------------------- the fit chosen
\* The places in the free list of m of the blocks of payload r or more.
Fits(m, r) ==
  {i \in DOMAIN FreeList(m) : get_block_size(m, FreeList(m)[i]) >= r}

\* The block of payload r or more met first on the walk from
\* last_free_block along the prev links, NULL if there is none.
FirstFit(m, r) ==
  IF Fits(m, r) = {}
  THEN NULL
  ELSE FreeList(m)[CHOOSE i \in Fits(m, r) : \A j \in Fits(m, r) : i <= j]

\* C23: a successful malloc(n) allocates, of the free blocks of payload
\* round_up(n) or more, the one met first on the walk from last_free_block
\* along the prev links, whether or not it has the lowest address or the
\* tightest fit.
C23_FirstFit ==
  [][(op'.name = "malloc" /\ ~crashed' /\ ret' # NULL)
       => /\ ret' = FirstFit(Cur, Rounded(op'.size))
          /\ check_alloc(CurNext, ret') = ALLOC]_vars

\* ------------------------------------------------------ the payload sizes
\* C24: after every call every block of the heap, free or allocated, has a
\* payload size that is a multiple of 8 and at least 16.
C24_PayloadSizes ==
  ~crashed
    => \A b \in Blocks(Cur) :
         /\ get_block_size(Cur, b) % WIDTH = 0
         /\ get_block_size(Cur, b) >= 16

\* ================================================== implicit_allocator.c
\* The implicit allocator keeps no free list: a machine state of it is
\* [mem, nblocks, nused, bytes_used, rd, wr].  Its header is one word, read
\* and written as that of the explicit allocator is.
\* static void *segment_end.
segment_end == Add(segment_start, segment_size)

i_round_up(req_size) ==
  LET s == Add(req_size, WIDTH - 1)
  IN s - (s % WIDTH)

i_get_next_block(m, block_ptr) ==
  LET next_block == Add(Add(block_ptr, get_block_size(m, block_ptr)), WIDTH)
  IN IF next_block < segment_end THEN next_block ELSE NULL

\* The loop of first_fit from its i-th iteration on; a fault ends it.
RECURSIVE i_first_fit_loop(_, _, _, _)
i_first_fit_loop(m, curr_block, i, req_size) ==
  IF i < m.nblocks
  THEN LET m0 == Rd(m, AdrSize(curr_block))
       IN IF get_hdr(curr_block) \notin DOMAIN m.mem
          THEN [m |-> m0, v |-> NULL]
          ELSE IF get_block_size(m0, curr_block) >= req_size
                  /\ check_alloc(m0, curr_block) = 0
               THEN [m |-> m0, v |-> curr_block]
               ELSE i_first_fit_loop(m0, i_get_next_block(m0, curr_block),
                                     i + 1, req_size)
  ELSE [m |-> m, v |-> NULL]

i_first_fit(m, req_size) == i_first_fit_loop(m, start_block, 0, req_size)

i_myinit(m, heap_start, heap_size) ==
  [St(m, heap_start, Shl2(Sub(heap_size, WIDTH)))
     EXCEPT !.nblocks = 1, !.nused = 0, !.bytes_used = 0]

\* mymalloc, lines 260-265: what is left of the block becomes a free block.
i_split(m, alloc_block, size_diff) ==
  IF size_diff > 0
  THEN [set_hdr_status(
          set_hdr_size(Rd(m, AdrSize(alloc_block)),
                       i_get_next_block(m, alloc_block),
                       Sub(size_diff, WIDTH)),
          i_get_next_block(m, alloc_block), FREE)
          EXCEPT !.nblocks = Add(@, 1)]
  ELSE m

\* mymalloc, lines 266-267.
i_count(m, req_size) ==
  [m EXCEPT !.nused = @ + 1,
            !.bytes_used = Add(@, Add(req_size, WIDTH))]

\* mymalloc, lines 255-269: ff is what first_fit returned.
i_take(ff, req_size) ==
  IF ff.v # NULL
  THEN [m |-> i_count(
                i_split(set_hdr_status(
                          set_hdr_size(Rd(ff.m, AdrSize(ff.v)), ff.v,
                                       req_size),
                          ff.v, ALLOC),
                        ff.v, Sub(get_block_size(ff.m, ff.v), req_size)),
                req_size),
        v |-> ff.v]
  ELSE [m |-> ff.m, v |-> NULL]

i_mymalloc(m, req_size) ==
  IF req_size <= 0
  THEN [m |-> m, v |-> NULL]
  ELSE i_take(i_first_fit(m, i_round_up(req_size)), i_round_up(req_size))

\* myfree, line 286, after the status is cleared.
i_uncount(m, ptr) ==
  [Rd(m, AdrSize(ptr))
     EXCEPT !.bytes_used = Sub(@, Add(get_block_size(m, ptr), WIDTH))]

i_myfree(m, ptr) ==
  IF ptr # NULL
  THEN i_uncount(set_hdr_status([m EXCEPT !.nused = @ - 1], ptr, FREE), ptr)
  ELSE m

\* myrealloc, lines 298-301: a is what mymalloc returned.
i_realloc_move(a, old_ptr, new_size, dir) ==
  Result(i_myfree(memcpy(a.m, a.v, old_ptr, new_size, dir), old_ptr), a.v,
         CopyOrders(a.v, old_ptr, new_size))

i_myrealloc(m, old_ptr, new_size, dir) ==
  IF old_ptr = NULL
  THEN realloc_null(i_mymalloc(m, new_size))
  ELSE IF new_size = 0
  THEN Result(i_myfree(m, old_ptr), NULL, {"up"})
  ELSE i_realloc_move(i_mymalloc(m, new_size), old_ptr, new_size, dir)

\* ------------------------------------------ the implicit allocator's machine
ICur ==
  [mem |-> mem, nblocks |-> nblocks, nused |-> nused,
   bytes_used |-> bytes_used, rd |-> {}, wr |-> {}]

\* The call `name(ptr, size)` ran from ICur to m and returned r, after
\* which the client holds newlive; a call that faulted never returns.
IReturn(m, name, ptr, size, r, newlive) ==
  /\ op' = [name |-> name, ptr |-> ptr, size |-> size]
  /\ rd' = m.rd
  /\ wr' = m.wr
  /\ UNCHANGED <<segment_size, last_free_block, wild>>
  /\ Called
  /\ IF Fault(m)
     THEN /\ crashed' = TRUE
          /\ UNCHANGED <<mem, nblocks, nused, bytes_used, live, ret>>
     ELSE /\ crashed' = FALSE
          /\ mem' = m.mem
          /\ nblocks' = m.nblocks
          /\ nused' = m.nused
          /\ bytes_used' = m.bytes_used
          /\ ret' = r
          /\ live' = newlive

\* The state myinit(segment_start, HeapSize) of the implicit allocator
\* leaves, the segment zeroed before, in a mapping with no host word or
\* with HostWords of them.
IInit ==
  /\ segment_size = HeapSize
  /\ \E fill \in HostVals, host \in {0, HostWords} :
       mem = i_myinit([mem |-> [a \in Words(HeapWords + host) |->
                                  IF a < Base + HeapSize THEN 0 ELSE fill],
                       nblocks |-> 0, nused |-> 0, bytes_used |-> 0,
                       rd |-> {}, wr |-> {}],
                      segment_start, HeapSize).mem
  /\ last_free_block = NULL
  /\ nblocks = 1
  /\ nused = 0
  /\ bytes_used = 0
  /\ live = << >>
  /\ op = [name |-> "init", ptr |-> segment_start, size |-> HeapSize]
  /\ ret = 1
  /\ rd = {}
  /\ wr = {segment_start}
  /\ crashed = FALSE
  /\ wild = 0
  /\ calls = 0

\* What mymalloc(n) leaves, the client holding the pointer returned.
IMalloced(a, n) ==
  IReturn(a.m, "malloc", NULL, n, a.v,
          IF a.v # NULL THEN Put(live, a.v, Stored(n)) ELSE live)

IMalloc == ~crashed /\ \E n \in ReqSizes : IMalloced(i_mymalloc(ICur, n), n)

IFree ==
  /\ ~crashed
  /\ \E p \in DOMAIN live \cup {NULL} :
       IReturn(i_myfree(ICur, p), "free", p, 0, NULL, Drop(live, p))

\* realloc(p, n) ran to r, its memcpy copying in order dir.
IRealloced(r, p, n, dir) ==
  /\ dir \in r.orders
  /\ IReturn(r.m, "realloc", p, n, r.v, ReallocLive(p, n, r.v))

IRealloc ==
  /\ ~crashed
  /\ \E p \in DOMAIN live \cup {NULL}, n \in ReqSizes, dir \in {"up", "down"} :
       IRealloced(i_myrealloc(ICur, p, n, dir), p, n, dir)

IStore == StoreLive /\ UNCHANGED calls

INext == IMalloc \/ IFree \/ IRealloc \/ IStore

SpecImplicit == IInit /\ [][INext]_vars

\* ------------------------------------------- the implicit allocator: claims
\* The blocks the walk of nblocks steps from start_block meets.
IWalk(m) == Walk(m, start_block, m.nblocks)

\* The sum of payload + 8 over the blocks of sq that are allocated.
RECURSIVE UsedWidth(_, _)
UsedWidth(m, sq) ==
  IF sq = << >> THEN 0
  ELSE (IF check_alloc(m, Head(sq)) = ALLOC
        THEN get_block_size(m, Head(sq)) + WIDTH ELSE 0)
       + UsedWidth(m, Tail(sq))

\* The walk sums to the region size, nused counts the allocated blocks and
\* bytes_used their bytes.
IAccounted(m) ==
  /\ Len(IWalk(m)) = m.nblocks
  /\ SumWidth(m, IWalk(m)) = segment_size
  /\ m.nused = Cardinality({i \in DOMAIN IWalk(m) :
                              check_alloc(m, IWalk(m)[i]) = ALLOC})
  /\ m.bytes_used = UsedWidth(m, IWalk(m))

\* C25: after init and after every call the walk of nblocks steps from the
\* first block sums payload + 8 to the region size, nused is the number of
\* blocks marked allocated and bytes_used the sum of payload + 8 over
\* them.
C25_Accounted == ~crashed => IAccounted(ICur)

\* C25: nblocks never goes down, and free only clears the status bit.
C25_FreeClears ==
  [][/\ nblocks' >= nblocks
     /\ (op'.name = "free" /\ ~crashed')
          => \A a \in DOMAIN mem :
               mem'[a] = IF a = get_hdr(op'.ptr) /\ op'.ptr # NULL
                         THEN mem[a] - (mem[a] % 4) ELSE mem[a]]_vars

\* malloc has split the header-only free block off the block b, which had
\* payload r + 8, and has written nowhere but to the two headers.
SplitOffEmpty(b, r) ==
  /\ ~crashed'
  /\ ret' = b
  /\ get_block_size(ICur, b) = r + WIDTH
  /\ mem'[get_hdr(b)] = Shl2(r) + ALLOC
  /\ mem'[b + r] = Shl2(0) + FREE
  /\ nblocks' = nblocks + 1
  /\ wr' = {get_hdr(b), b + r}
  /\ get_hdr(NULL) \notin wr'

\* C26: when malloc selects a free block whose payload is the rounded
\* request and 8 more, it splits a free block of payload 0 off it and adds
\* 1 to nblocks wherever the block lies, the last block of the region
\* included, and never writes through the NULL that get_next_block
\* returns.
C26_SplitsEmpty ==
  [][(/\ op'.name = "malloc"
      /\ op'.size > 0
      /\ i_first_fit(ICur, i_round_up(op'.size)).v # NULL
      /\ get_block_size(ICur, i_first_fit(ICur, i_round_up(op'.size)).v)
           = i_round_up(op'.size) + WIDTH)
       => SplitOffEmpty(i_first_fit(ICur, i_round_up(op'.size)).v,
                        i_round_up(op'.size))]_vars

\* ------------------------------------------- malloc and free, there and back
\* The allocator state of m: the blocks of the region in address order with
\* their sizes and statuses, the free list in its order from
\* last_free_block with the links of its blocks, and the counters.
AllocatorState(m) ==
  [walk |-> RegionWalk(m, start_block),
   size |-> [b \in Blocks(m) |-> get_block_size(m, b)],
   status |-> [b \in Blocks(m) |-> check_alloc(m, b)],
   list |-> FreeList(m),
   links |-> [b \in FreeBlocks(m) |->
                <<get_prev_free(m, b), get_next_free(m, b)>>],
   last_free_block |-> m.last_free_block,
   nblocks |-> m.nblocks,
   nused |-> m.nused]

\* mymalloc ran from m to a, returned a block and split it.
SplitFrom(m, a) ==
  /\ ~Fault(a.m)
  /\ a.v # NULL
  /\ a.m.nblocks = m.nblocks + 1

\* free of the block a.v, run on the state a.m the malloc left, is back at
\* the allocator state of m.
Restored(m, a, b) ==
  /\ ~Fault(b)
  /\ AllocatorState(b) = AllocatorState(m)

\* C27: in every state reached, for every n for which malloc(n) returns a
\* block it has split, free of that block called next restores the
\* allocator state before the malloc: the same blocks, sizes and statuses,
\* the same free list and last_free_block, the same nblocks and nused.
C27_SplitThenFree ==
  ~crashed
    => \A n \in ReqSizes :
         SplitFrom(Cur, mymalloc(Cur, n))
           => Restored(Cur, mymalloc(Cur, n),
                       myfree(mymalloc(Cur, n).m, mymalloc(Cur, n).v))

====
